---------------------------- MODULE Spec2Model ----------------------------
(***************************************************************************)
(* The CODEOWNERS writer (src/src/github_codeowners/writer.py), the data   *)
(* model it serialises and the parser it is the inverse of.                *)
(*                                                                         *)
(* A Python str is modelled as a run-length encoded sequence of            *)
(* characters: a sequence of runs [ch, n] meaning n >= 1 copies of ch,     *)
(* with no two adjacent runs of the same character.  The encoding is       *)
(* lossless ("a" * 1500 is the single run [a, 1500]) and lets a document   *)
(* of 3 MiB be a small value.                                              *)
(***************************************************************************)
EXTENDS Integers, Sequences, FiniteSets, TLC

VARIABLES entries, fs, last, arg, written

vars == <<entries, fs, last, arg, written>>

-----------------------------------------------------------------------------
(* Characters and strings *)

SP == " "
NL == "\n"
HASH == "#"
AT == "@"
LETTER == "a"
EACUTE == "U+00E9"

Whitespace == {SP, NL}

\* len(c.encode('utf-8')) of one character
Utf8Width(c) == IF c = EACUTE THEN 2 ELSE 1

Run(c, k) == [ch |-> c, n |-> k]

\* c * k
Rep(c, k) == IF k = 0 THEN <<>> ELSE <<Run(c, k)>>

\* s + t
Cat(s, t) ==
    IF s = <<>> THEN t
    ELSE IF t = <<>> THEN s
    ELSE IF s[Len(s)].ch = t[1].ch
         THEN SubSeq(s, 1, Len(s) - 1)
                \o <<Run(t[1].ch, s[Len(s)].n + t[1].n)>>
                \o Tail(t)
         ELSE s \o t

RECURSIVE StrLen(_)
\* len(s)
StrLen(s) == IF s = <<>> THEN 0 ELSE s[1].n + StrLen(Tail(s))

RECURSIVE Utf8Len(_)
\* len(s.encode('utf-8'))
Utf8Len(s) ==
    IF s = <<>> THEN 0 ELSE s[1].n * Utf8Width(s[1].ch) + Utf8Len(Tail(s))

RECURSIVE Join(_, _)
\* sep.join(parts)
Join(sep, parts) ==
    IF parts = <<>> THEN <<>>
    ELSE IF Len(parts) = 1 THEN parts[1]
    ELSE Cat(Cat(parts[1], sep), Join(sep, Tail(parts)))

\* Optional[str]
None == [some |-> FALSE, v |-> <<>>]
Some(s) == [some |-> TRUE, v |-> s]

\* Python truthiness of an Optional[str]: None and "" are both falsy
Truthy(o) == o.some /\ o.v # <<>>

-----------------------------------------------------------------------------
(* models.py: entries and the document *)

BLANK == "BLANK"
COMMENT == "COMMENT"
RULE == "RULE"

\* CodeOwnersEntry(type, pattern, owners, comment)
CodeOwnersEntry(t, p, os, c) ==
    [type |-> t, pattern |-> p, owners |-> os, comment |-> c]

\* CodeOwnersEntry.blank()
EntryBlank == CodeOwnersEntry(BLANK, None, <<>>, None)

\* CodeOwnersEntry.comment(text)
EntryComment(text) == CodeOwnersEntry(COMMENT, None, <<>>, Some(text))

\* CodeOwnersEntry.rule(pattern, owners, inline_comment=None); an owner is
\* kept as the string CodeOwner.from_string was given, which str() returns
EntryRule(pattern, owners, inline_comment) ==
    CodeOwnersEntry(RULE, Some(pattern), owners, inline_comment)

\* CodeOwnersFile.get_rules()
get_rules(es) == SelectSeq(es, LAMBDA e : e.type = RULE)

-----------------------------------------------------------------------------
(* writer.py *)

MAX_FILE_SIZE_BYTES == 3 * 1024 * 1024

\* an inline comment written as "#comment"
CommentParts_NoSpace(entry) ==
    IF Truthy(entry.comment)
    THEN <<Cat(<<Run(HASH, 1)>>, entry.comment.v)>>
    ELSE <<>>

\* parts.append(f"# {entry.comment}") under "if entry.comment:"
CommentParts(entry) ==
    IF Truthy(entry.comment)
    THEN <<Cat(<<Run(HASH, 1), Run(SP, 1)>>, entry.comment.v)>>
    ELSE <<>>

\* a comment line written without its "# "
FormatComment_Bare(entry) ==
    IF Truthy(entry.comment) THEN entry.comment.v ELSE <<Run(HASH, 1)>>

\* the COMMENT branch of format_entry
FormatComment(entry) ==
    IF Truthy(entry.comment)
    THEN Cat(<<Run(HASH, 1), Run(SP, 1)>>, entry.comment.v)
    ELSE <<Run(HASH, 1)>>

\* a rule line built without the "if not entry.pattern" guard
FormatRule_NoPatternGuard(entry) ==
    Join(<<Run(SP, 1)>>,
         <<entry.pattern.v>> \o entry.owners \o CommentParts(entry))

\* a rule line with the inline comment ahead of the owners
FormatRule_CommentFirst(entry) ==
    IF ~Truthy(entry.pattern) THEN <<>>
    ELSE Join(<<Run(SP, 1)>>,
              <<entry.pattern.v>> \o CommentParts(entry) \o entry.owners)

\* the RULE branch of format_entry
FormatRule(entry) ==
    IF ~Truthy(entry.pattern) THEN <<>>
    ELSE Join(<<Run(SP, 1)>>,
              <<entry.pattern.v>> \o entry.owners \o CommentParts(entry))

format_entry(entry) ==
    IF entry.type = BLANK THEN <<>>
    ELSE IF entry.type = COMMENT THEN FormatComment(entry)
    ELSE IF entry.type = RULE THEN FormatRule(entry)
    ELSE <<>>

\* a ceiling check that also rejects a text of exactly the limit
SizeExceeded_AtLimit(content) == Utf8Len(content) >= MAX_FILE_SIZE_BYTES

\* TRUE when _validate_file_size(content) raises CodeOwnersFileSizeError
SizeExceeded(content) == Utf8Len(content) > MAX_FILE_SIZE_BYTES

\* a join that ends every line, the last one too
Content_TrailingNewline(es) ==
    IF es = <<>> THEN <<>>
    ELSE Cat(Join(<<Run(NL, 1)>>, [i \in 1..Len(es) |-> format_entry(es[i])]),
             <<Run(NL, 1)>>)

\* "\n".join(lines) over lines = [format_entry(e) for e in entries]
Content(es) ==
    Join(<<Run(NL, 1)>>, [i \in 1..Len(es) |-> format_entry(es[i])])

\* write_codeowners: the outcome and, when it returns, the returned text
write_codeowners(es, validate_size) ==
    LET content == Content(es)
    IN  IF validate_size /\ SizeExceeded(content)
        THEN [outcome |-> "CodeOwnersFileSizeError", value |-> None]
        ELSE [outcome |-> "returned", value |-> Some(content)]


-----------------------------------------------------------------------------
(* parser.py: one line, one entry *)

RECURSIVE SplitNL(_, _, _)
\* text.split("\n"): cur is the line being read, acc the lines read
SplitNL(s, cur, acc) ==
    IF s = <<>> THEN Append(acc, cur)
    ELSE IF s[1].ch = NL
         THEN SplitNL(Tail(s), <<>>,
                      Append(acc, cur) \o [i \in 1..(s[1].n - 1) |-> <<>>])
         ELSE SplitNL(Tail(s), Append(cur, s[1]), acc)

\* text.splitlines(): a final line break opens no further line
SplitLines(text) ==
    LET segs == SplitNL(text, <<>>, <<>>)
    IN  IF segs[Len(segs)] = <<>> THEN SubSeq(segs, 1, Len(segs) - 1) ELSE segs

RECURSIVE RStrip(_)
\* line.rstrip()
RStrip(s) ==
    IF s = <<>> THEN s
    ELSE IF s[Len(s)].ch \in Whitespace THEN RStrip(SubSeq(s, 1, Len(s) - 1))
    ELSE s

RECURSIVE LStrip(_)
\* line.lstrip()
LStrip(s) ==
    IF s = <<>> THEN s
    ELSE IF s[1].ch \in Whitespace THEN LStrip(Tail(s))
    ELSE s

\* s[1:]
DropFirst(s) ==
    IF s = <<>> THEN s
    ELSE IF s[1].n = 1 THEN Tail(s)
    ELSE <<Run(s[1].ch, s[1].n - 1)>> \o Tail(s)

\* s.startswith(c)
StartsWith(s, c) == s # <<>> /\ s[1].ch = c

\* the text after a "#": the "#" and one following space, if any, removed
AfterHash(s) ==
    LET rest == DropFirst(s)
    IN  IF StartsWith(rest, SP) THEN DropFirst(rest) ELSE rest

RECURSIVE Tokens(_, _, _)
\* line.split(): the tokens between runs of whitespace
Tokens(s, cur, acc) ==
    IF s = <<>> THEN (IF cur = <<>> THEN acc ELSE Append(acc, cur))
    ELSE IF s[1].ch \in Whitespace
         THEN Tokens(Tail(s), <<>>, IF cur = <<>> THEN acc ELSE Append(acc, cur))
         ELSE Tokens(Tail(s), Append(cur, s[1]), acc)

\* the position of the first token after the pattern that starts with "#",
\* or Len(toks) + 1 when there is none
CommentAt(toks) ==
    LET marks == { i \in 2..Len(toks) : StartsWith(toks[i], HASH) }
    IN  IF marks = {} THEN Len(toks) + 1
        ELSE CHOOSE i \in marks : \A j \in marks : i <= j

\* one line to one entry
parse_line(line) ==
    LET s == RStrip(line)
    IN  IF s = <<>> THEN EntryBlank
        ELSE IF StartsWith(LStrip(s), HASH)
             THEN EntryComment(AfterHash(LStrip(s)))
        ELSE LET toks == Tokens(s, <<>>, <<>>)
                 c    == CommentAt(toks)
             IN  EntryRule(toks[1],
                           SubSeq(toks, 2, c - 1),
                           IF c > Len(toks) THEN None
                           ELSE Some(AfterHash(Join(<<Run(SP, 1)>>,
                                                    SubSeq(toks, c, Len(toks))))))

\* parse_codeowners(text): the document's entries
parse_codeowners(text) ==
    LET lines == SplitLines(text)
    IN  [i \in 1..Len(lines) |-> parse_line(lines[i])]

-----------------------------------------------------------------------------
(* The file system seen through the target path: how many levels of the   *)
(* path's parent chain exist, and the target file's content if it exists. *)

ChainLen == 2

\* mkdir without parents=True makes one level only
Mkdir_OneLevel(f) ==
    [f EXCEPT !.dirs = IF @ < ChainLen THEN @ + 1 ELSE @]

\* file_path.parent.mkdir(parents=True, exist_ok=True)
Mkdir(f) == [f EXCEPT !.dirs = ChainLen]

\* TRUE when open(file_path, "w") raises FileNotFoundError
ParentMissing(f) == f.dirs < ChainLen

\* a write that opens the target for appending and so keeps what it held
WriteText_Append(f, content) ==
    [f EXCEPT !.file = Some(Cat(f.file.v, content))]

\* file_path.write_text(content, encoding="utf-8") with the parent present:
\* the file is truncated and holds content
WriteText(f, content) == [f EXCEPT !.file = Some(content)]

\* a writer that opens (and so truncates) the target before it serialises
write_codeowners_file_OpenFirst(es, f, create_dirs, validate_size) ==
    LET f1 == IF create_dirs THEN Mkdir(f) ELSE f
        w  == write_codeowners(es, validate_size)
    IN  IF ParentMissing(f1)
        THEN [outcome |-> "FileNotFoundError", fs |-> f1]
        ELSE IF w.outcome # "returned"
             THEN [outcome |-> w.outcome, fs |-> WriteText(f1, <<>>)]
             ELSE [outcome |-> "returned", fs |-> WriteText(f1, w.value.v)]

\* a writer that writes the text and validates its size afterwards
write_codeowners_file_ValidateLast(es, f, create_dirs, validate_size) ==
    LET f1 == IF create_dirs THEN Mkdir(f) ELSE f
        w  == write_codeowners(es, validate_size)
    IN  IF ParentMissing(f1)
        THEN [outcome |-> "FileNotFoundError", fs |-> f1]
        ELSE [outcome |-> w.outcome, fs |-> WriteText(f1, Content(es))]

\* write_codeowners_file: the outcome and the file system it leaves
write_codeowners_file(es, f, create_dirs, validate_size) ==
    LET f1 == IF create_dirs THEN Mkdir(f) ELSE f
        w  == write_codeowners(es, validate_size)
    IN  IF w.outcome # "returned"
        THEN [outcome |-> w.outcome, fs |-> f1]
        ELSE IF ParentMissing(f1)
             THEN [outcome |-> "FileNotFoundError", fs |-> f1]
             ELSE [outcome |-> "returned", fs |-> WriteText(f1, w.value.v)]

-----------------------------------------------------------------------------
(* Bounds and the arguments the operations are called with *)

MaxEntries == 2

\* the most recent call of the writer (its flags, its outcome, the text it
\* returned, the file system it started from): none once the document changed
NoCall(f) ==
    [op |-> "none", create_dirs |-> FALSE, validate_size |-> FALSE,
     outcome |-> "none", value |-> None, before |-> f]

OldContents ==
    { <<Run(HASH, 1), Run(SP, 1), Run(LETTER, 3)>>,
      Rep(LETTER, MAX_FILE_SIZE_BYTES + 2) }

InitFs ==
    { [dirs |-> d, file |-> None] : d \in 0..ChainLen }
      \cup { [dirs |-> ChainLen, file |-> Some(c)] : c \in OldContents }

\* patterns around the 3 MiB ceiling, the last one of two-byte characters
SizedPatterns ==
    { Rep(LETTER, 1),
      Rep(LETTER, MAX_FILE_SIZE_BYTES - 1),
      Rep(LETTER, MAX_FILE_SIZE_BYTES + 1),
      Rep(EACUTE, MAX_FILE_SIZE_BYTES \div 2) }

-----------------------------------------------------------------------------
(* Operations *)

\* what the caller holds to pass on: nothing, a text or an entry
NoArg == [kind |-> "none", text |-> <<>>, entry |-> EntryBlank]
TextArg(t) == [kind |-> "text", text |-> t, entry |-> EntryBlank]
EntryArg(e) == [kind |-> "entry", text |-> <<>>, entry |-> e]

Init ==
    /\ entries = <<>>
    /\ fs \in InitFs
    /\ last = NoCall(fs)
    /\ arg = NoArg
    /\ written = None

Forget == last' = NoCall(fs)

\* CodeOwnersFile()
NewFile ==
    /\ entries' = <<>>
    /\ Forget
    /\ UNCHANGED <<fs, arg, written>>

\* CodeOwnersFile.add_blank()
AddBlank ==
    /\ Len(entries) < MaxEntries
    /\ entries' = Append(entries, EntryBlank)
    /\ Forget
    /\ UNCHANGED <<fs, arg, written>>

\* CodeOwnersFile.add_comment(text)
AddComment(text) ==
    /\ Len(entries) < MaxEntries
    /\ entries' = Append(entries, EntryComment(text))
    /\ Forget
    /\ UNCHANGED <<fs, arg, written>>

\* CodeOwnersFile.add_rule(pattern, owners, inline_comment)
AddRule(pattern, owners, inline_comment) ==
    /\ Len(entries) < MaxEntries
    /\ entries' = Append(entries, EntryRule(pattern, owners, inline_comment))
    /\ Forget
    /\ UNCHANGED <<fs, arg, written>>

\* content = write_codeowners(codeowners_file, validate_size)
WriteCodeowners(validate_size) ==
    LET w == write_codeowners(entries, validate_size)
    IN  /\ last' = [op |-> "write_codeowners", create_dirs |-> FALSE,
                    validate_size |-> validate_size, outcome |-> w.outcome,
                    value |-> w.value, before |-> fs]
        /\ UNCHANGED <<entries, fs, arg, written>>

\* write_codeowners_file(codeowners_file, file_path, create_dirs, validate_size)
WriteCodeownersFile(create_dirs, validate_size) ==
    LET r == write_codeowners_file(entries, fs, create_dirs, validate_size)
    IN  /\ fs' = r.fs
        /\ last' = [op |-> "write_codeowners_file", create_dirs |-> create_dirs,
                    validate_size |-> validate_size, outcome |-> r.outcome,
                    value |-> None, before |-> fs]
        /\ written' = IF r.outcome = "returned"
                       THEN write_codeowners(entries, validate_size).value
                       ELSE written
        /\ UNCHANGED <<entries, arg>>

Next ==
    \/ NewFile
    \/ AddBlank
    \/ \E p \in SizedPatterns : AddRule(p, <<>>, None)
    \/ \E v \in BOOLEAN : WriteCodeowners(v)
    \/ \E c, v \in BOOLEAN : WriteCodeownersFile(c, v)

Spec == Init /\ [][Next]_vars

\* every call validates the size, and the target does not exist at the start
InitValidated ==
    /\ entries = <<>>
    /\ fs \in { f \in InitFs : ~f.file.some }
    /\ last = NoCall(fs)
    /\ arg = NoArg
    /\ written = None

NextValidated ==
    \/ NewFile
    \/ AddBlank
    \/ \E p \in SizedPatterns : AddRule(p, <<>>, None)
    \/ \E c \in BOOLEAN : WriteCodeownersFile(c, TRUE)

SpecValidated == InitValidated /\ [][NextValidated]_vars

-----------------------------------------------------------------------------
(* Formatting and parsing: the caller starts from a text, from a single   *)
(* entry, or from an empty document it fills.                             *)

MaxRuns == 4
MaxRep == 2
MaxOwners == 2

TextChars == {LETTER, HASH, SP, NL}

Normalised(s) == \A i \in 1..(Len(s) - 1) : s[i].ch # s[i + 1].ch

\* every text of at most MaxRuns runs, each of at most MaxRep characters
RawTexts ==
    { s \in UNION { [1..k -> [ch : TextChars, n : 1..MaxRep]] : k \in 0..MaxRuns } :
        Normalised(s) }

Word == <<Run(LETTER, 1)>>
Owner == <<Run(AT, 1), Run(LETTER, 1)>>
TwoWords == <<Run(LETTER, 1), Run(SP, 1), Run(LETTER, 1)>>

\* "*.html @frontend # Web pages", "*.py @a\n\n*.js @b", "*.md" and a rule
\* line with loose spacing, in this alphabet
SampleTexts ==
    { Join(<<Run(SP, 1)>>, <<Word, Owner, <<Run(HASH, 1)>>, TwoWords>>),
      Join(<<Run(NL, 1)>>,
           <<Join(<<Run(SP, 1)>>, <<Word, Owner>>), <<>>,
             Join(<<Run(SP, 1)>>, <<Word, Owner>>)>>),
      Word,
      Join(<<Run(SP, 2)>>, <<Word, Owner, Cat(<<Run(HASH, 1)>>, Word), Word>>) }

Texts == RawTexts \cup SampleTexts

FieldStrs == {<<>>, Word, TwoWords}
OptFieldStrs == {None} \cup {Some(f) : f \in FieldStrs}
OwnerLists ==
    UNION { [1..k -> {Owner, Word}] : k \in 0..MaxOwners }

\* every entry a caller can construct over these fields
EntryArgs ==
    { CodeOwnersEntry(t, p, os, c) :
        t \in {BLANK, COMMENT, RULE}, p \in OptFieldStrs,
        os \in OwnerLists, c \in OptFieldStrs }

\* add_rule and add_comment arguments, well-formed and not
DocPatterns == {Word, <<>>, <<Run(SP, 1)>>, Cat(<<Run(HASH, 1)>>, Word)}
DocOwnerLists == {<<>>, <<Owner>>, <<Cat(<<Run(HASH, 1)>>, Word)>>}
DocComments == {None, Some(Word)}
DocCommentTexts == {<<>>, Word, <<Run(LETTER, 1), Run(NL, 1), Run(LETTER, 1)>>}

InitText ==
    /\ entries = <<>>
    /\ fs = [dirs |-> ChainLen, file |-> None]
    /\ last = NoCall(fs)
    /\ arg \in {NoArg} \cup {TextArg(t) : t \in Texts}
                       \cup {EntryArg(e) : e \in EntryArgs}
    /\ written = None

Called(op, value) ==
    [op |-> op, create_dirs |-> FALSE, validate_size |-> FALSE,
     outcome |-> "returned", value |-> value, before |-> fs]

\* codeowners_file.entries.append(CodeOwnersEntry(type=EntryType.RULE,
\* pattern=None, owners=owners))
AppendEntry(e) ==
    /\ Len(entries) < MaxEntries
    /\ entries' = Append(entries, e)
    /\ Forget
    /\ UNCHANGED <<fs, arg, written>>

\* result = format_entry(entry)
FormatEntry ==
    /\ arg.kind = "entry"
    /\ last' = Called("format_entry", Some(format_entry(arg.entry)))
    /\ UNCHANGED <<entries, fs, arg, written>>

\* codeowners = parse_codeowners(content)
ParseCodeowners ==
    /\ arg.kind = "text"
    /\ entries' = parse_codeowners(arg.text)
    /\ last' = Called("parse_codeowners", None)
    /\ UNCHANGED <<fs, arg, written>>

\* written = write_codeowners(codeowners); reparsed = parse_codeowners(written)
Reparse ==
    /\ last.op = "write_codeowners"
    /\ last.outcome = "returned"
    /\ arg' = TextArg(last.value.v)
    /\ entries' = parse_codeowners(last.value.v)
    /\ last' = Called("parse_codeowners", None)
    /\ UNCHANGED <<fs, written>>

Building == arg.kind = "none"

NextText ==
    \/ Building /\ NewFile
    \/ Building /\ AddBlank
    \/ Building /\ \E t \in DocCommentTexts : AddComment(t)
    \/ Building /\ \E p \in DocPatterns, os \in DocOwnerLists, c \in DocComments :
                      AddRule(p, os, c)
    \/ Building /\ \E os \in DocOwnerLists :
                      AppendEntry(CodeOwnersEntry(RULE, None, os, None))
    \/ FormatEntry
    \/ ParseCodeowners
    \/ arg.kind # "entry" /\ WriteCodeowners(TRUE)
    \/ Reparse

SpecText == InitText /\ [][NextText]_vars

-----------------------------------------------------------------------------
(* Properties of the writer's file and size handling, under Spec *)

FileCall == last.op = "write_codeowners_file"
TextCall == last.op = "write_codeowners"

\* C1: a write_codeowners_file call with validate_size=True on a document
\* whose text exceeds 3,145,728 bytes raises CodeOwnersFileSizeError and leaves
\* the file system as it was: no target file and no parent directory created.
C1_SizeErrorLeavesFileSystem ==
    (FileCall /\ last.validate_size /\ Utf8Len(Content(entries)) > 3145728)
        => (last.outcome = "CodeOwnersFileSizeError" /\ fs = last.before)

\* C2: when write_codeowners_file with validate_size=True raises
\* CodeOwnersFileSizeError, the target file is as before the call: still
\* absent if it was absent, still holding its previous content if it existed.
C2_SizeErrorKeepsTarget ==
    (FileCall /\ last.validate_size /\ last.outcome = "CodeOwnersFileSizeError")
        => fs.file = last.before.file

C2_Witness ==
    /\ FileCall /\ last.validate_size
    /\ last.outcome = "CodeOwnersFileSizeError"
    /\ last.before.file.some
    /\ fs.file = last.before.file

\* C3: write_codeowners raises CodeOwnersFileSizeError exactly when
\* validate_size is true and the text is longer than 3,145,728 UTF-8 bytes;
\* otherwise (at exactly the limit, or with validate_size=False at any size)
\* it returns the joined text.
C3_SizeCeiling ==
    TextCall =>
        /\ (last.outcome = "CodeOwnersFileSizeError")
              <=> (last.validate_size /\ Utf8Len(Content(entries)) > 3145728)
        /\ (last.outcome # "CodeOwnersFileSizeError")
              => (last.outcome = "returned" /\ last.value = Some(Content(entries)))
        /\ (last.validate_size /\ Utf8Len(Content(entries)) = 3145728)
              => last.outcome = "returned"
        /\ (last.validate_size /\ Utf8Len(Content(entries)) = 3145729)
              => last.outcome = "CodeOwnersFileSizeError"

C3_Witness ==
    /\ TextCall /\ last.validate_size
    /\ Utf8Len(Content(entries)) = 3145728
    /\ StrLen(Content(entries)) < 3145728
    /\ last.outcome = "returned"

\* C10: for a document within the size limit and a target whose parent chain
\* is missing, create_dirs=True creates the parents and the file and returns;
\* create_dirs=False raises FileNotFoundError and creates nothing.
C10_MissingParents ==
    (FileCall /\ ParentMissing(last.before) /\ Utf8Len(Content(entries)) <= 3145728)
        => IF last.create_dirs
           THEN /\ last.outcome = "returned"
                /\ fs.dirs = ChainLen
                /\ fs.file = Some(Content(entries))
           ELSE /\ last.outcome = "FileNotFoundError"
                /\ fs = last.before

C10_Witness ==
    /\ FileCall /\ last.create_dirs
    /\ last.before.dirs = 0
    /\ Utf8Len(Content(entries)) <= 3145728
    /\ last.outcome = "returned"
    /\ fs.dirs = ChainLen /\ fs.file.some

-----------------------------------------------------------------------------
(* Properties of formatting and parsing, under SpecText *)

FormatCall == last.op = "format_entry"
ParseCall == last.op = "parse_codeowners"
Returned == TextCall /\ last.outcome = "returned"

RECURSIVE LinesUpTo(_, _)
\* the first k entries' lines, each but the first preceded by one newline
LinesUpTo(es, k) ==
    IF k = 0 THEN <<>>
    ELSE IF k = 1 THEN format_entry(es[1])
    ELSE Cat(Cat(LinesUpTo(es, k - 1), <<Run(NL, 1)>>), format_entry(es[k]))

RECURSIVE TotalLen(_)
TotalLen(es) ==
    IF es = <<>> THEN 0 ELSE StrLen(format_entry(es[1])) + TotalLen(Tail(es))

\* C4: write_codeowners returns the entries' format_entry lines in document
\* order with exactly one newline between consecutive lines and none before
\* the first or after the last; the empty document gives the empty string.
C4_LinesJoinedInOrder ==
    Returned =>
        /\ last.value = Some(LinesUpTo(entries, Len(entries)))
        /\ entries = <<>> => last.value.v = <<>>
        /\ entries # <<>> =>
              StrLen(last.value.v) = TotalLen(entries) + Len(entries) - 1

C4_Witness ==
    /\ Returned
    /\ Len(entries) >= 2
    /\ \E i \in 1..Len(entries) : entries[i].type = RULE /\ entries[i].owners # <<>>
    /\ \E i \in 1..Len(entries) : entries[i].type = BLANK

RECURSIVE WithOwners(_, _)
\* acc, then a space and an owner for each owner in order
WithOwners(acc, os) ==
    IF os = <<>> THEN acc
    ELSE WithOwners(Cat(Cat(acc, <<Run(SP, 1)>>), os[1]), Tail(os))

NonEmpty(o) == o.some /\ o.v # <<>>

Malformed(e) == e.type = RULE /\ ~e.pattern.some

RECURSIVE HasChar(_, _)
HasChar(s, c) == s # <<>> /\ (s[1].ch = c \/ HasChar(Tail(s), c))

\* C6: a RULE entry without a pattern formats, without error, to the empty
\* string whatever its owners and comment are; in write_codeowners it gives
\* one empty line, and a document of one-line entries is written as one line
\* per entry.
C6_MalformedRuleIsBlankLine ==
    /\ (FormatCall /\ Malformed(arg.entry))
          => (last.outcome = "returned" /\ last.value = Some(<<>>))
    /\ (Returned /\ entries # <<>>
          /\ \A i \in 1..Len(entries) : ~HasChar(format_entry(entries[i]), NL))
          => LET lines == SplitNL(last.value.v, <<>>, <<>>)
             IN  /\ Len(lines) = Len(entries)
                 /\ \A i \in 1..Len(entries) :
                       Malformed(entries[i]) => lines[i] = <<>>

C6_Witness ==
    /\ Returned
    /\ Len(entries) >= 2
    /\ Malformed(entries[1]) /\ entries[1].owners # <<>>
    /\ entries[2].type = RULE /\ entries[2].pattern.some
    /\ Len(SplitNL(last.value.v, <<>>, <<>>)) = 2

\* the rules of two documents agree in pattern, number of owners and inline
\* comment (present or not, and its text)
SameRules(d1, d2) ==
    LET r1 == get_rules(d1)
        r2 == get_rules(d2)
    IN  /\ Len(r1) = Len(r2)
        /\ \A i \in 1..Len(r1) :
              /\ r1[i].pattern = r2[i].pattern
              /\ Len(r1[i].owners) = Len(r2[i].owners)
              /\ r1[i].comment = r2[i].comment

\* C7: for every text D, parsing what write_codeowners gives for
\* parse_codeowners(D) yields the same rule patterns, the same number of
\* owners per rule and the same inline comment per rule (present or absent
\* alike) as parse_codeowners(D).
C7_RoundTrip ==
    ParseCall =>
        SameRules(parse_codeowners(write_codeowners(entries, TRUE).value.v),
                  entries)

\* a line in the form format_entry writes: empty; "#" or "# body"; or a
\* pattern, owners and an optional "# comment", single-spaced, with no
\* whitespace at either end
CanonicalComment(l) ==
    \/ l = <<Run(HASH, 1)>>
    \/ /\ Len(l) >= 3
       /\ l[1] = Run(HASH, 1)
       /\ l[2].ch = SP
       /\ l[Len(l)].ch # SP

CanonicalRule(l) ==
    /\ l[1].ch \notin {HASH, SP}
    /\ l[Len(l)].ch # SP
    /\ \A i \in 1..Len(l) : l[i].ch = SP => l[i].n = 1
    /\ LET toks == Tokens(l, <<>>, <<>>)
           c    == CommentAt(toks)
       IN  c > Len(toks) \/ (toks[c] = <<Run(HASH, 1)>> /\ c < Len(toks))

CanonicalLine(l) == l = <<>> \/ CanonicalComment(l) \/ CanonicalRule(l)

CanonicalText(t) ==
    \/ t = <<>>
    \/ /\ t[Len(t)].ch # NL
       /\ LET lines == SplitNL(t, <<>>, <<>>)
          IN  \A i \in 1..Len(lines) : CanonicalLine(lines[i])

BuiltByAdd(es) ==
    \A i \in 1..Len(es) :
        \/ es[i] = EntryBlank
        \/ es[i].type = COMMENT /\ es[i].comment.some
        \/ es[i].type = RULE /\ es[i].pattern.some

ReadablePattern(p) == LStrip(p) # <<>> /\ ~StartsWith(LStrip(p), HASH)

NoLineBreak(e) ==
    /\ ~HasChar(e.pattern.v, NL)
    /\ ~HasChar(e.comment.v, NL)
    /\ \A j \in 1..Len(e.owners) : ~HasChar(e.owners[j], NL)

WellFormed(es) ==
    \A i \in 1..Len(es) :
        /\ NoLineBreak(es[i])
        /\ es[i].type = RULE => ReadablePattern(es[i].pattern.v)

-----------------------------------------------------------------------------
(* Properties of the written file *)

\* C11: when write_codeowners_file returns, the target file holds exactly the
\* text write_codeowners returns for the document and the validate_size flag,
\* and nothing of what the file held before, shorter or longer.
C11_FileHoldsWrittenText ==
    (FileCall /\ last.outcome = "returned")
        => LET w == write_codeowners(entries, last.validate_size)
           IN  /\ w.outcome = "returned"
               /\ fs.file = w.value
               /\ Utf8Len(fs.file.v) = Utf8Len(Content(entries))

C11_Witness ==
    /\ FileCall /\ last.outcome = "returned"
    /\ last.before.file.some
    /\ Utf8Len(last.before.file.v) > Utf8Len(Content(entries))
    /\ entries # <<>>
    /\ fs.file = Some(Content(entries))

\* C12: over any sequence of write_codeowners_file calls to the path with
\* validate_size=True, from a state where the target does not exist, the
\* target is absent or holds exactly the text of the most recent call that
\* returned, so never more than 3,145,728 bytes; a call that failed (size
\* error, or parent missing with create_dirs=False) leaves it as it was.
C12_FileIsLastWrittenText ==
    /\ fs.file.some => (written.some /\ fs.file = written)
    /\ ~fs.file.some => ~written.some
    /\ fs.file.some => Utf8Len(fs.file.v) <= 3145728
    /\ (FileCall /\ last.outcome # "returned")
          => /\ last.outcome \in {"CodeOwnersFileSizeError", "FileNotFoundError"}
             /\ fs.file = last.before.file

C12_Witness ==
    /\ FileCall
    /\ last.outcome = "CodeOwnersFileSizeError"
    /\ fs.file.some
    /\ fs.file = written
    /\ fs.file # Some(Content(entries))
    /\ Utf8Len(fs.file.v) = 3145728

=============================================================================
